---- MODULE Spec2Model ----
(***************************************************************************)
(* Model of the three scripts of unir-facturas-albaranes:                  *)
(*   procesa_facturas_y_albaranes.py  main(): merges every invoice of a    *)
(*       folder with the delivery notes (albaranes) its text references;   *)
(*   separar_facturas.py  procesar_pdf_separar(): splits one PDF holding   *)
(*       many invoices into one PDF per invoice;                           *)
(*   procesar_albaranes.py  SimpleApp.start_process(): renames and copies  *)
(*       delivery notes after the number read on them.                     *)
(* A behaviour is one run of one of the scripts (variable prog).           *)
(* Text is a sequence of one-character strings, so that formatting,        *)
(* padding, splitting and searching are computed as the code computes them.*)
(***************************************************************************)
EXTENDS Integers, Sequences, FiniteSets, TLC

\* ------------------------------------------------------------------ bounds
MaxFacturas == 2      \* invoices listed in the invoice folder
MaxNums == 3          \* references found in one invoice text
MaxPages == 5         \* pages of the PDF to split
MaxArchivos == 2      \* delivery notes to rename
MaxEjecuciones == 2   \* runs started from the window of the splitter

\* ------------------------------------------------------------------ text
\* Python's None; a value no text equals.
None == <<"None">>

\* Python truth of a string or None
Truthy(s) == s # None /\ s # <<>>

Digits == {"0", "1", "2", "3", "4", "5", "6", "7", "8", "9"}
UpperSeq == <<"A", "B", "C", "D", "E", "F", "G", "H", "I", "J", "K", "L", "M",
              "N", "O", "P", "Q", "R", "S", "T", "U", "V", "W", "X", "Y", "Z">>
LowerSeq == <<"a", "b", "c", "d", "e", "f", "g", "h", "i", "j", "k", "l", "m",
              "n", "o", "p", "q", "r", "s", "t", "u", "v", "w", "x", "y", "z">>
Letters == {"A", "B", "C", "D", "E", "F", "G", "H", "I", "J", "K", "L", "M",
            "N", "O", "P", "Q", "R", "S", "T", "U", "V", "W", "X", "Y", "Z",
            "a", "b", "c", "d", "e", "f", "g", "h", "i", "j", "k", "l", "m",
            "n", "o", "p", "q", "r", "s", "t", "u", "v", "w", "x", "y", "z"}
WordChars == Digits \cup Letters \cup {"_"}

\* \w of Python's re on the characters used here.
IsWordChar(c) == c \in WordChars

LowerChar(c) ==
    IF \E i \in DOMAIN UpperSeq : UpperSeq[i] = c
    THEN LowerSeq[CHOOSE i \in DOMAIN UpperSeq : UpperSeq[i] = c]
    ELSE c

\* str.lower()
Lower(s) == [i \in DOMAIN s |-> LowerChar(s[i])]

\* str.endswith(suf)
EndsWith(s, suf) ==
    /\ Len(s) >= Len(suf)
    /\ SubSeq(s, Len(s) - Len(suf) + 1, Len(s)) = suf

DotPdf == <<".", "p", "d", "f">>

\* f.lower().endswith(".pdf")
IsPdfName(f) == EndsWith(Lower(f), DotPdf)

\* str.zfill(w) on a string of digits
RECURSIVE zfill(_, _)
zfill(s, w) == IF Len(s) >= w THEN s ELSE zfill(<<"0">> \o s, w)

DigitSeq == <<"0", "1", "2", "3", "4", "5", "6", "7", "8", "9">>

\* str(n) for a natural number
RECURSIVE IntToStr(_)
IntToStr(n) == IF n < 10 THEN <<DigitSeq[n + 1]>>
               ELSE IntToStr(n \div 10) \o <<DigitSeq[(n % 10) + 1]>>

\* the regex assertion \b between s[i] and s[i+1] (i = 0: before the text)
WordBoundary(s, i) ==
    (i >= 1 /\ IsWordChar(s[i])) # (i < Len(s) /\ IsWordChar(s[i + 1]))

\* re.search(rf"\b{re.escape(num)}\b", s)
SearchWholeWord(num, s) ==
    \E i \in 1..(Len(s) - Len(num) + 1) :
        /\ SubSeq(s, i, i + Len(num) - 1) = num
        /\ WordBoundary(s, i - 1)
        /\ WordBoundary(s, i + Len(num) - 1)

\* f" ({contador})"
CounterSuffix(contador) == <<" ", "(">> \o IntToStr(contador) \o <<")">>

UpperChar(c) ==
    IF \E i \in DOMAIN LowerSeq : LowerSeq[i] = c
    THEN UpperSeq[CHOOSE i \in DOMAIN LowerSeq : LowerSeq[i] = c]
    ELSE c

\* str.upper()
Upper(s) == [i \in DOMAIN s |-> UpperChar(s[i])]

\* \s of Python's re on the characters used here
Spaces == {" ", "\t", "\n"}

IsSpace(c) == c \in Spaces

\* the end (exclusive) of the longest run that starts at position i of s, of
\* characters of the set chars (dentro) or of characters outside it (~dentro)
RunEnd(s, i, chars, dentro) ==
    IF \A j \in i..Len(s) : (s[j] \in chars) = dentro THEN Len(s) + 1
    ELSE CHOOSE j \in i..Len(s) :
             /\ (s[j] \in chars) # dentro
             /\ \A h \in i..(j - 1) : (s[h] \in chars) = dentro

\* str.lstrip("0")
lstrip0(s) == SubSeq(s, RunEnd(s, 1, {"0"}, TRUE), Len(s))

\* the start (exclusive) of the longest run that ends at position i of s, of
\* characters of the set chars (dentro) or of characters outside it (~dentro)
RunStart(s, i, chars, dentro) ==
    IF \A j \in 1..i : (s[j] \in chars) = dentro THEN 0
    ELSE CHOOSE j \in 1..i :
             /\ (s[j] \in chars) # dentro
             /\ \A h \in (j + 1)..i : (s[h] \in chars) = dentro

\* str.strip()
strip(s) == SubSeq(s, RunEnd(s, 1, Spaces, TRUE), RunStart(s, Len(s), Spaces, TRUE))

\* name split before position last (0: no split)
SplitAt(name, last) ==
    IF last = 0 \/ (\A j \in 1..(last - 1) : name[j] = ".")
    THEN <<name, <<>>>>
    ELSE <<SubSeq(name, 1, last - 1), SubSeq(name, last, Len(name))>>

\* os.path.splitext(name): <<root, ext>>; the extension starts at the last
\* dot unless that dot is leading (only dots before it).
splitext(name) == SplitAt(name, RunStart(name, Len(name), {"."}, FALSE))

\* all sequences over S of length 0..n
SeqsUpTo(S, n) == UNION {[1..k -> S] : k \in 0..n}

\* all sequences without repetition over S of length 0..n
InjSeqsUpTo(S, n) ==
    {s \in SeqsUpTo(S, n) : \A i, j \in DOMAIN s : i # j => s[i] # s[j]}


\* ------------------------------------------------------------------ state
VARIABLES
    prog,                      \* the script this run executes: "unir", "separar", "albaranes"
    pc,                        \* position of the run in the script
    fs,                        \* the files of the output folder: file name -> contents
    \* procesa_facturas_y_albaranes.py, main()
    archivos_facturas,         \* the invoice file names listed at the start
    pool,                      \* the PDF pool in os.walk order: <<[name, body, legible], ...>>
    destino_en_albaranes,      \* lines 214-215: carpeta_destino was chosen under carpeta_albaranes
    idx,                       \* position of the for loop in archivos_facturas (0: not started)
    nombre_cliente,
    nums,
    k,                         \* position of the inner for loop in nums
    lista_a_unir,
    encontrados_para_factura,
    final_path,
    total_procesadas,
    albaranes_faltantes,
    avisos,                    \* lines 247 and 260: the warnings main() logged
    errores_log,               \* line 288: the invoices whose pass raised, as logged
    resumen,                   \* lines 293-298: <<combined, invoices, missing>>, empty before
    \* separar_facturas.py, procesar_pdf_separar()
    total_pages,
    paginas_leidas,            \* what line 305 logged for pages 0..i-1: i is its length
    current_number_key,
    current_pages,
    current_fecha,
    current_serie,
    current_num_str,
    current_raw,
    results_saved,
    processed_invoices,
    sep_error,                 \* the exception that left procesar_pdf_separar, or None
    \* procesar_albaranes.py, SimpleApp.start_process()
    total_archivos,
    alb_idx,                   \* files of the folder handled so far
    procesados,
    fallidos,
    \* separar_facturas.py, the key of a text of the number block
    texto_impreso,             \* the text printed on the page
    texto_ocr,                 \* the same text as ocr_image_to_text returns it
    clave_impresa,             \* lines 304-307 for texto_impreso
    clave_ocr,                 \* lines 304-307 for texto_ocr
    \* separar_facturas.py, AppSeparador
    entry_pdf,                 \* line 373: the text of the entry, "" when empty
    entry_out,                 \* line 378
    btn_start,                 \* line 390: the state of the button, "normal" or "disabled"
    status_var,                \* line 384
    progress,                  \* line 382: [value, maximum]
    hilos                      \* line 435: the threads created, each [pc, i, total]

varsUnir == <<archivos_facturas, pool, destino_en_albaranes, idx, nombre_cliente, nums, k, lista_a_unir,
              encontrados_para_factura, final_path, total_procesadas,
              albaranes_faltantes, avisos, errores_log, resumen>>

varsSeparar == <<total_pages, paginas_leidas, current_number_key, current_pages,
                 current_fecha, current_serie, current_num_str, current_raw,
                 results_saved, processed_invoices, sep_error>>

varsAlbaranes == <<total_archivos, alb_idx, procesados, fallidos>>

varsTexto == <<texto_impreso, texto_ocr, clave_impresa, clave_ocr>>

varsGui == <<entry_pdf, entry_out, btn_start, status_var, progress, hilos>>

vars == <<prog, pc, fs, varsUnir, varsSeparar, varsAlbaranes, varsTexto, varsGui>>

\* ------------------------------------------------------------------ files
\* Contents of an output file: who wrote it, the source documents or the
\* source pages copied into it, and whether the write ran to its end.
Contenido(origen, docs, paginas, completo) ==
    [origen |-> origen, docs |-> docs, paginas |-> paginas, completo |-> completo]

\* a file that was in the output folder before the run
Previo == Contenido("previo", <<>>, <<>>, TRUE)

\* os.path.exists(path) for a path of the output folder
Exists(files, name) == name \in DOMAIN files

\* open(path, "wb") followed by the write: the file now holds `contenido`
WriteFile(files, name, contenido) ==
    [n \in DOMAIN files \cup {name} |-> IF n = name THEN contenido ELSE files[n]]

\* ------------------------------------------------------ unir: pure functions
\* The text of an invoice, as far as the references go: the digit runs that
\* follow each "Albaran Num. Axx" label, in the order they appear.
\* extraer_numeros_albaran_ordenados: the pattern's group (\d{1,4}) takes at
\* most the first 4 digits of each run, and each is padded to 4 digits;
\* a failure to open or read the PDF gives the empty list.
extraer_numeros_albaran_ordenados(texto, legible) ==
    IF ~legible THEN <<>>
    ELSE [i \in DOMAIN texto |->
            zfill(SubSeq(texto[i], 1, IF Len(texto[i]) < 4 THEN Len(texto[i]) ELSE 4), 4)]

\* the condition of the search loop for one file name f
NameMatches(num, f) == IsPdfName(f) /\ SearchWholeWord(num, f)

\* buscar_albaran_primero(num, carpeta_base): the first file in walk order
\* whose name ends in .pdf and holds num as a whole word, or None.
buscar_albaran_primero(num, carpeta) ==
    IF \A i \in DOMAIN carpeta : ~NameMatches(num, carpeta[i].name) THEN None
    ELSE carpeta[CHOOSE i \in DOMAIN carpeta :
                     /\ NameMatches(num, carpeta[i].name)
                     /\ \A j \in 1..(i - 1) : ~NameMatches(num, carpeta[j].name)].name

\* line 177, os.path.join(root, f), for a file f of carpeta_destino when that
\* folder lies under carpeta_albaranes
EnDestino(f) == <<"d", "/">> \o f

\* lines 173-178 over the files of carpeta_destino: os.walk lists them in no
\* fixed order, so each matching file can be the one returned
buscar_en_destino(num, files) ==
    {EnDestino(f) : f \in {n \in DOMAIN files : NameMatches(num, n)}}

\* lines 268-272: the output name from the invoice name <<base, ext>> and the client name
SalidaNombre(partes, cliente) ==
    IF Truthy(cliente) THEN partes[1] \o <<" ">> \o cliente \o partes[2]
    ELSE partes[1] \o partes[2]

\* lines 277-281 without the loop: the computed name, taken or not
FinalPathSinContador(files, stem, ext, actual, contador) == actual

\* lines 277-281: the first of salida, "salida (1)", "salida (2)", ... that
\* does not exist; contador is the next counter to try.
RECURSIVE FinalPathFrom(_, _, _, _, _)
FinalPathFrom(files, stem, ext, actual, contador) ==
    IF ~Exists(files, actual) THEN actual
    ELSE FinalPathFrom(files, stem, ext, stem \o CounterSuffix(contador) \o ext, contador + 1)

\* lines 268-272 and 280 for the invoice file `factura`:
\* <<salida_nombre, os.path.splitext(salida_nombre)[0], ext>>
SalidaNombrada(salida_nombre, ext) == <<salida_nombre, splitext(salida_nombre)[1], ext>>

SalidaSplit(partes, cliente) == SalidaNombrada(SalidaNombre(partes, cliente), partes[2])

SalidaPartes(factura, cliente) == SalidaSplit(splitext(factura), cliente)

\* line 256 written as an insert behind the invoice
AgregarRutaTrasFactura(lista, ruta) == <<lista[1], ruta>> \o Tail(lista)

\* line 256
AgregarRuta(lista, ruta) == Append(lista, ruta)

\* line 261 written so that a number is listed once per invoice
AgregarFaltanteUnaVez(faltantes, factura, num) ==
    IF \E i \in DOMAIN faltantes : faltantes[i] = <<factura, num>> THEN faltantes
    ELSE Append(faltantes, <<factura, num>>)

\* line 261
AgregarFaltante(faltantes, factura, num) == Append(faltantes, <<factura, num>>)

\* combinar_pdfs, lines 183-190: the pages of every file that can be read,
\* in list order; a file that cannot be read is logged and skipped.
\* A file of carpeta_destino can be read when its write was completed.
PaginasLeidas(lista, carpeta, files, factura_legible) ==
    SelectSeq(lista,
              LAMBDA p : IF \E i \in DOMAIN carpeta : carpeta[i].name = p
                         THEN \A i \in DOMAIN carpeta : carpeta[i].name = p => carpeta[i].legible
                         ELSE IF \E n \in DOMAIN files : EnDestino(n) = p
                         THEN \A n \in DOMAIN files : EnDestino(n) = p => files[n].completo
                         ELSE factura_legible)


\* ------------------------------------------------------------ unir: inputs
\* file names of the invoice folder
NameA == <<"1", "6", "0", "9", ".", "p", "d", "f">>
NameAB == <<"1", "6", "0", "9", " ", "b", ".", "p", "d", "f">>
NameTxt == <<"n", ".", "t", "x", "t">>
FacturaFiles == {NameA, NameAB, NameTxt}

\* what extraer_nombre_cliente can return: a cleaned name or None
Clientes == {None, <<"b">>}

\* digit runs after the "Albaran Num. Axx" label of an invoice text
Ref1608 == <<"1", "6", "0", "8">>
Ref1609 == <<"1", "6", "0", "9">>
Ref487 == <<"4", "8", "7">>
Menciones == {Ref1608, Ref1609}

\* the invoice texts
Textos == SeqsUpTo(Menciones, MaxNums) \cup {<<Ref487>>}

\* pool files: name, words of the body text, whether PdfReader can read it
PoolFile(name, body, legible) == [name |-> name, body |-> body, legible |-> legible]
File1608 == PoolFile(<<"n", " ", "1", "6", "0", "8", ".", "p", "d", "f">>, Ref1608, TRUE)
File1609 == PoolFile(<<"n", " ", "1", "6", "0", "9", ".", "P", "D", "F">>, Ref1609, FALSE)
FileScan == PoolFile(<<"s", "c", "a", "n", ".", "p", "d", "f">>,
                     <<"n", " ", "1", "6", "0", "9", " ", "x">>, TRUE)
FileTxt == PoolFile(<<"1", "6", "0", "8", ".", "t", "x", "t">>, Ref1608, TRUE)
File487 == PoolFile(<<"4", "8", "7", ".", "p", "d", "f">>, Ref487, TRUE)
FileA25 == PoolFile(<<"A", "2", "5", " ", "4", "8", "7", ".", "p", "d", "f">>, Ref487, TRUE)
Pools == {<<>>, <<File1608, FileScan>>,
          <<FileTxt, FileScan, File1609, File1608, File487, FileA25>>}

\* the output folder before the run
CarpetasDestino == {<<>>, [n \in {NameAB} |-> Previo]}

\* lines 213-215, the folders chosen: <<pool, carpeta_destino lies under
\* carpeta_albaranes>>. The output folder is outside the pool folder for
\* every pool, and inside it for one; in that case it is empty when the run
\* begins.
Carpetas == {<<p, FALSE>> : p \in Pools} \cup {<<<<File1608, FileScan>>, TRUE>>}

\* buscar_albaran_primero's test of a file name, for every reference and
\* every file name of the pools, worked out once
Coincide ==
    [num \in {zfill(m, 4) : m \in Menciones \cup {Ref487}}, f \in {p.name : p \in {File1608, File1609, FileScan, FileTxt, File487, FileA25}}
        |-> NameMatches(num, f)]

\* the numbers extraer_numeros_albaran_ordenados can return for the texts above
Referencias == {zfill(m, 4) : m \in Menciones \cup {Ref487}}

\* buscar_albaran_primero for every reference and pool of the input sets,
\* worked out once
RutaAlbaran ==
    [num \in Referencias, carpeta \in Pools |-> buscar_albaran_primero(num, carpeta)]

\* line 254, buscar_albaran_primero(num, carpeta_albaranes), at the moment of
\* the call: every call walks the folder as it is then (line 173). The files
\* of the pool come first; when carpeta_destino lies under carpeta_albaranes
\* the walk goes on into the files written there.
RutasPosibles(num, carpeta, files, dentro) ==
    IF RutaAlbaran[num, carpeta] # None THEN {RutaAlbaran[num, carpeta]}
    ELSE IF dentro /\ buscar_en_destino(num, files) # {} THEN buscar_en_destino(num, files)
    ELSE {None}

\* lines 268-272 and 280 for every invoice file and client name of the
\* input sets, worked out once
SalidaDe ==
    [factura \in FacturaFiles, cliente \in Clientes |-> SalidaPartes(factura, cliente)]

\* lines 268-281 for the invoice file `factura`
FinalPath(files, factura, cliente) ==
    FinalPathFrom(files, SalidaDe[factura, cliente][2], SalidaDe[factura, cliente][3],
                  SalidaDe[factura, cliente][1], 1)

\* ------------------------------------------------------------ unir: main()
Factura == archivos_facturas[idx]

\* the state of main() before the loop, lines 226-230
InitUnir ==
    /\ \E listado \in InjSeqsUpTo(FacturaFiles, MaxFacturas) :
           archivos_facturas = SelectSeq(listado, IsPdfName)
    /\ \E carpetas \in Carpetas : /\ pool = carpetas[1]
                                  /\ destino_en_albaranes = carpetas[2]
    /\ destino_en_albaranes => fs = <<>>
    /\ idx = 0
    /\ nombre_cliente = None
    /\ nums = <<>>
    /\ k = 1
    /\ lista_a_unir = <<>>
    /\ encontrados_para_factura = 0
    /\ final_path = None
    /\ total_procesadas = 0
    /\ albaranes_faltantes = <<>>
    /\ avisos = <<>>
    /\ errores_log = <<>>
    /\ resumen = <<>>

\* the values main() holds when no invoice is being processed
IdleUnir ==
    /\ archivos_facturas = <<>>
    /\ pool = <<>>
    /\ destino_en_albaranes = FALSE
    /\ idx = 0
    /\ nombre_cliente = None
    /\ nums = <<>>
    /\ k = 1
    /\ lista_a_unir = <<>>
    /\ encontrados_para_factura = 0
    /\ final_path = None
    /\ total_procesadas = 0
    /\ albaranes_faltantes = <<>>
    /\ avisos = <<>>
    /\ errores_log = <<>>
    /\ resumen = <<>>

\* The end of one pass of the loop body (its last line, a continue, or the
\* except clause): control is back at the for statement. The locals of the
\* body are all assigned again before they are read (lines 239, 243, 251,
\* 252, 278), so the model clears them when the pass ends.
FinDePasada ==
    /\ pc' = "for"
    /\ nombre_cliente' = None
    /\ nums' = <<>>
    /\ k' = 1
    /\ lista_a_unir' = <<>>
    /\ encontrados_para_factura' = 0
    /\ final_path' = None

\* line 233: the for loop takes the next invoice, or ends
SiguienteFactura ==
    /\ prog = "unir" /\ pc = "for"
    /\ idx < Len(archivos_facturas)
    /\ idx' = idx + 1
    /\ pc' = "cliente"
    /\ UNCHANGED <<prog, varsTexto, varsGui, varsSeparar, varsAlbaranes, fs, archivos_facturas, pool, destino_en_albaranes, nombre_cliente, nums, k, lista_a_unir,
                   encontrados_para_factura, final_path, total_procesadas,
                   albaranes_faltantes, avisos, errores_log, resumen>>

\* lines 235-240: extraer_nombre_cliente never raises; it returns None on a failure
ExtraerNombreCliente ==
    /\ prog = "unir" /\ pc = "cliente"
    /\ \E c \in Clientes : nombre_cliente' = c
    /\ pc' = "nums"
    /\ UNCHANGED <<prog, varsTexto, varsGui, varsSeparar, varsAlbaranes, fs, archivos_facturas, pool, destino_en_albaranes, idx, nums, k, lista_a_unir,
                   encontrados_para_factura, final_path, total_procesadas,
                   albaranes_faltantes, avisos, errores_log, resumen>>

\* lines 243-252: the references in order; with none, continue with the next invoice
ExtraerNumeros ==
    /\ prog = "unir" /\ pc = "nums"
    /\ \E texto \in Textos, legible \in BOOLEAN :
           LET encontrados == extraer_numeros_albaran_ordenados(texto, legible)
           IN  IF encontrados = <<>>
               THEN /\ avisos' = Append(avisos, <<"sin albaranes", Factura, None>>)
                    /\ FinDePasada
               ELSE /\ pc' = "buscar"
                    /\ nums' = encontrados
                    /\ lista_a_unir' = <<Factura>>
                    /\ encontrados_para_factura' = 0
                    /\ k' = 1
                    /\ UNCHANGED <<nombre_cliente, final_path, avisos>>
    /\ UNCHANGED <<prog, varsTexto, varsGui, varsSeparar, varsAlbaranes, fs, archivos_facturas, pool, destino_en_albaranes, idx, total_procesadas,
                   albaranes_faltantes, errores_log, resumen>>

\* lines 253-261: one pass of the inner loop, for nums[k]
BuscarAlbaran ==
    /\ prog = "unir" /\ pc = "buscar"
    /\ k <= Len(nums)
    /\ \E ruta_alb \in RutasPosibles(nums[k], pool, fs, destino_en_albaranes) :
           IF ruta_alb # None
           THEN /\ lista_a_unir' = AgregarRuta(lista_a_unir, ruta_alb)
                /\ encontrados_para_factura' = encontrados_para_factura + 1
                /\ UNCHANGED <<albaranes_faltantes, avisos>>
           ELSE /\ avisos' = Append(avisos, <<"no encontrado", Factura, nums[k]>>)
                /\ albaranes_faltantes' = AgregarFaltante(albaranes_faltantes, Factura, nums[k])
                /\ UNCHANGED <<lista_a_unir, encontrados_para_factura>>
    /\ k' = k + 1
    /\ UNCHANGED <<prog, varsTexto, varsGui, varsSeparar, varsAlbaranes, pc, fs, archivos_facturas, pool, destino_en_albaranes, idx, nombre_cliente, nums,
                   final_path, total_procesadas, errores_log, resumen>>

\* line 263 written with the wrong comparison
NingunoEncontradoNegativo(encontrados) == encontrados < 0

\* the test of line 263
NingunoEncontrado(encontrados) == encontrados = 0

\* lines 263-281: with nothing found skip the invoice, else choose the output path
ElegirSalida ==
    /\ prog = "unir" /\ pc = "buscar"
    /\ k > Len(nums)
    /\ IF NingunoEncontrado(encontrados_para_factura)
       THEN FinDePasada
       ELSE /\ pc' = "combinar"
            /\ final_path' = FinalPath(fs, Factura, nombre_cliente)
            /\ UNCHANGED <<nombre_cliente, nums, k, lista_a_unir, encontrados_para_factura>>
    /\ UNCHANGED <<prog, varsTexto, varsGui, varsSeparar, varsAlbaranes, fs, archivos_facturas, pool, destino_en_albaranes, idx, total_procesadas,
                   albaranes_faltantes, avisos, errores_log, resumen>>

\* lines 283-285 and combinar_pdfs: the output is written and counted
CombinarPdfs ==
    /\ prog = "unir" /\ pc = "combinar"
    /\ \E factura_legible \in BOOLEAN :
           fs' = WriteFile(fs, final_path,
                           Contenido("unir", PaginasLeidas(lista_a_unir, pool, fs, factura_legible),
                                     <<>>, TRUE))
    /\ total_procesadas' = total_procesadas + 1
    /\ FinDePasada
    /\ UNCHANGED <<prog, varsTexto, varsGui, varsSeparar, varsAlbaranes, archivos_facturas, pool, destino_en_albaranes, idx,
                   albaranes_faltantes, avisos, errores_log, resumen>>

\* lines 287-289 written so that the exception leaves main()
ExceptFacturaSale ==
    /\ errores_log' = Append(errores_log, Factura)
    /\ pc' = "abortado"
    /\ UNCHANGED <<prog, varsTexto, varsGui, varsSeparar, varsAlbaranes, archivos_facturas, pool, destino_en_albaranes, idx,
                   nombre_cliente, nums, k, lista_a_unir, encontrados_para_factura,
                   final_path, total_procesadas, albaranes_faltantes, avisos, resumen>>

\* lines 287-289: the except clause of the loop body logs the exception and
\* the loop goes on with the next invoice
ExceptFactura ==
    /\ errores_log' = Append(errores_log, Factura)
    /\ FinDePasada
    /\ UNCHANGED <<prog, varsTexto, varsGui, varsSeparar, varsAlbaranes, archivos_facturas, pool, destino_en_albaranes, idx,
                   total_procesadas, albaranes_faltantes, avisos, resumen>>

\* combinar_pdfs lines 191-196 raise when the output cannot be written: either
\* open() failed and no file exists, or the write stopped part way. The
\* exception reaches the except clause of the loop body.
CombinarPdfsFalla ==
    /\ prog = "unir" /\ pc = "combinar"
    /\ \/ UNCHANGED fs
       \/ \E factura_legible \in BOOLEAN :
              fs' = WriteFile(fs, final_path,
                              Contenido("unir", PaginasLeidas(lista_a_unir, pool, fs, factura_legible),
                                        <<>>, FALSE))
    /\ ExceptFactura

\* any other exception raised inside the try block of the loop body
\* (lines 234-285) reaches the same except clause
ExcepcionEnFactura ==
    /\ prog = "unir" /\ pc \in {"cliente", "nums", "buscar"}
    /\ UNCHANGED fs
    /\ ExceptFactura

\* lines 291-300: the loop is over; the summary is logged
ResumenFinal ==
    /\ prog = "unir" /\ pc = "for"
    /\ idx >= Len(archivos_facturas)
    /\ resumen' = <<total_procesadas, Len(archivos_facturas), Len(albaranes_faltantes)>>
    /\ pc' = "fin"
    /\ UNCHANGED <<prog, varsTexto, varsGui, varsSeparar, varsAlbaranes, fs, archivos_facturas, pool, destino_en_albaranes, idx,
                   nombre_cliente, nums, k, lista_a_unir, encontrados_para_factura,
                   final_path, total_procesadas, albaranes_faltantes, avisos, errores_log>>

\* ------------------------------------------------- separar: pure functions
\* OCR_CONFUSION_MAP without its entry for the letter l
OcrConfusionSinEle(c) ==
    CASE c \in {"O", "o"} -> "0"
      [] c \in {"I", "|"} -> "1"
      [] c = "Z" -> "2"
      [] c = "S" -> "5"
      [] c = "B" -> "8"
      [] OTHER -> c

\* OCR_CONFUSION_MAP (the dashes of the table, outside ASCII, are left out)
OcrConfusion(c) ==
    CASE c \in {"O", "o"} -> "0"
      [] c \in {"I", "l", "|"} -> "1"
      [] c = "Z" -> "2"
      [] c = "S" -> "5"
      [] c = "B" -> "8"
      [] OTHER -> c

\* s.translate(OCR_CONFUSION_MAP)
translate(s) == [i \in DOMAIN s |-> OcrConfusion(s[i])]

\* RE_SERIE_NUM.match(s): ^\s*([A-Za-z]{1,5})?\s*([0-9]{1,4})\b
\* <<group 1 or "", group 2>>, or None when the pattern does not match.
\* Spaces up to a, then the whole run of letters up to b (a run of more than
\* 5 cannot be followed by a digit, so there is no match), spaces up to c,
\* then the whole run of digits up to d, which must be 1 to 4 long and end at
\* a word boundary.
MatchGroups(s, a, b, c, d) ==
    IF b - a <= 5 /\ d - c >= 1 /\ d - c <= 4 /\ WordBoundary(s, d - 1)
    THEN <<SubSeq(s, a, b - 1), SubSeq(s, c, d - 1)>>
    ELSE None

MatchDigits(s, a, b, c) == MatchGroups(s, a, b, c, RunEnd(s, c, Digits, TRUE))

MatchSpaces(s, a, b) == MatchDigits(s, a, b, RunEnd(s, b, Spaces, TRUE))

MatchLetters(s, a) == MatchSpaces(s, a, RunEnd(s, a, Letters, TRUE))

MatchSerieNum(s) == MatchLetters(s, RunEnd(s, 1, Spaces, TRUE))

\* the first 1 to 4 digits of the run of digits s[c..d-1]; None when c is
\* past the end of s
FirstDigits(s, c, d) ==
    IF c > Len(s) THEN None ELSE SubSeq(s, c, IF d - c > 4 THEN c + 3 ELSE d - 1)

DigitsFrom(s, c) == FirstDigits(s, c, RunEnd(s, c, Digits, TRUE))

\* re.search(r'([0-9]{1,4})', s): the first 1 to 4 digits of the first run
\* of digits, or None
SearchDigits(s) == DigitsFrom(s, RunEnd(s, 1, Digits, FALSE))

\* x or y, for strings
Or(x, y) == IF x # <<>> THEN x ELSE y

\* num.lstrip('0') or num
SinCeros(num) == Or(lstrip0(num), num)

\* lines 136-145, m and m2 being the results of the two patterns
NormalizeFrom(m, m2) ==
    IF m # None THEN <<Upper(strip(m[1])), SinCeros(m[2])>>
    ELSE IF m2 # None THEN <<<<>>, SinCeros(m2)>>
    ELSE None

NormalizeMapped(s_mapped) == NormalizeFrom(MatchSerieNum(s_mapped), SearchDigits(s_mapped))

\* normalize_numeric_part(s): <<serie, num>> or None
normalize_numeric_part(s) ==
    IF s = None \/ s = <<>> THEN None ELSE NormalizeMapped(translate(s))

\* lines 201-215, norm being the result of normalize_numeric_part
ExtractFrom(raw_number, fecha_iso, norm) ==
    IF norm = None THEN <<raw_number, fecha_iso, None, None>>
    ELSE <<raw_number, fecha_iso, IF norm[1] # <<>> THEN norm[1] ELSE None, norm[2]>>

\* A page as the zone OCR gives it: raw is the candidate text for the number
\* (lines 154-187; None when the block has no text) and fecha the ISO date
\* found in the block (lines 190-198; None when there is none).
\* extract_number_and_date_from_text returns
\* <<raw_number, fecha_iso, serie, num_str>>.
extract_number_and_date_from_text(pagina) ==
    ExtractFrom(pagina.raw, pagina.fecha, normalize_numeric_part(pagina.raw))

\* re.sub(r'\s+', ' ', raw).strip(): every run of spaces becomes one space
CollapseSpaces(s) ==
    strip(SelectSeq([j \in DOMAIN s |-> IF IsSpace(s[j]) /\ j > 1 /\ IsSpace(s[j - 1])
                                       THEN "" ELSE IF IsSpace(s[j]) THEN " " ELSE s[j]],
                    LAMBDA c : c # ""))

\* lines 258-265, norm being the result of normalize_numeric_part
KeyFromRaw(raw_number, norm) ==
    IF norm # None
    THEN Upper(norm[1]) \o <<"#">> \o zfill(norm[2], 4)
    ELSE <<"R", "A", "W", "#">> \o CollapseSpaces(raw_number)

\* make_key_from_parts(serie, num_str, raw_number)
make_key_from_parts(serie, num_str, raw_number) ==
    IF Truthy(num_str)
    THEN Upper(IF Truthy(serie) THEN serie ELSE <<>>) \o <<"#">> \o zfill(num_str, 4)
    ELSE IF Truthy(raw_number)
    THEN KeyFromRaw(raw_number, normalize_numeric_part(raw_number))
    ELSE None

FechaCero == <<"0", "0", "0", "0", "-", "0", "0", "-", "0", "0">>
SinNumero == <<"S", "I", "N", "_", "N", "U", "M", "E", "R", "O">>

\* re.sub(r'[\/\\\:\*\?\"\<\>\|]', '_', raw).strip()
SafeRaw(raw) ==
    strip([j \in DOMAIN raw |->
              IF raw[j] \in {"/", "\\", ":", "*", "?", "\"", "<", ">", "|"} THEN "_" ELSE raw[j]])

\* x if x else y, for a string or None
OrElse(x, y) == IF Truthy(x) THEN x ELSE y

\* save_invoice_pdf_from_reader, lines 221-229: the file name
SaveFilename(fecha_iso, serie, num_str, raw_number) ==
    IF Truthy(num_str)
    THEN OrElse(fecha_iso, FechaCero) \o <<" ", "F", "E", "#">> \o zfill(num_str, 4)
             \o (IF Truthy(serie) THEN <<" ">> \o serie ELSE <<>>) \o DotPdf
    ELSE OrElse(fecha_iso, FechaCero) \o <<" ">> \o SafeRaw(OrElse(raw_number, SinNumero)) \o DotPdf

\* save_invoice_pdf_from_reader, lines 231-236: the first of outpath,
\* "base (1).ext", "base (2).ext", ... that does not exist
RECURSIVE SaveOutpathFrom(_, _, _, _, _)
SaveOutpathFrom(files, base, ext, outpath, counter) ==
    IF ~Exists(files, outpath) THEN outpath
    ELSE SaveOutpathFrom(files, base, ext, base \o CounterSuffix(counter) \o ext, counter + 1)

SaveOutpathSplit(files, filename, partes) ==
    SaveOutpathFrom(files, partes[1], partes[2], filename, 1)

SaveOutpath(files, filename) == SaveOutpathSplit(files, filename, splitext(filename))

\* --------------------------------------------------------- separar: inputs
Fecha1 == <<"2", "0", "2", "5", "-", "0", "1", "-", "0", "2">>

Pagina(raw, fecha) == [raw |-> raw, fecha |-> fecha]
PagVacia == Pagina(None, None)
PagA1 == Pagina(<<"A", " ", "1">>, Fecha1)
PagAl == Pagina(<<"A", " ", "l">>, None)
Pag2 == Pagina(<<"2">>, None)
PagXx == Pagina(<<"x", "x">>, None)
Paginas == {PagVacia, PagA1, PagAl, Pag2, PagXx}

\* the output folder before the run
CarpetasDestinoSeparar ==
    {<<>>, [n \in {SaveFilename(Fecha1, <<"A">>, <<"1">>, <<"A", " ", "1">>)} |-> Previo]}

\* ------------------------------------------- separar: procesar_pdf_separar
\* lines 277-287
InitSeparar ==
    /\ total_pages \in 0..MaxPages
    /\ paginas_leidas = <<>>
    /\ current_number_key = None
    /\ current_pages = <<>>
    /\ current_fecha = None
    /\ current_serie = None
    /\ current_num_str = None
    /\ current_raw = None
    /\ results_saved = <<>>
    /\ processed_invoices = 0
    /\ sep_error = None

IdleSeparar ==
    /\ total_pages = 0
    /\ paginas_leidas = <<>>
    /\ current_number_key = None
    /\ current_pages = <<>>
    /\ current_fecha = None
    /\ current_serie = None
    /\ current_num_str = None
    /\ current_raw = None
    /\ results_saved = <<>>
    /\ processed_invoices = 0
    /\ sep_error = None

\* the loop variable i of line 289: pages 0..i-1 are done
PaginaI == Len(paginas_leidas)

\* line 304 for every page of the input set: <<raw_number, fecha_iso, serie, num_str>>
Extraida == [pagina \in Paginas |-> extract_number_and_date_from_text(pagina)]

\* line 307 for every page of the input set
KeyOf == [pagina \in Paginas |->
             make_key_from_parts(Extraida[pagina][3], Extraida[pagina][4], Extraida[pagina][1])]

\* the path save_invoice_pdf_from_reader writes the open group to
RutaDeGuardado ==
    SaveOutpath(fs, SaveFilename(current_fecha, current_serie, current_num_str, current_raw))

\* save_invoice_pdf_from_reader, lines 238-242: the pages of page_indexes, in order
PaginasEscritas(page_indexes) == page_indexes

\* save_invoice_pdf_from_reader for the open group, the write succeeding
GuardarFactura ==
    /\ fs' = WriteFile(fs, RutaDeGuardado,
                       Contenido("separar", <<>>, PaginasEscritas(current_pages), TRUE))
    /\ results_saved' = Append(results_saved, RutaDeGuardado)
    /\ processed_invoices' = processed_invoices + 1

\* save_invoice_pdf_from_reader raising at lines 238-242: no file, or a
\* file cut short. Nothing catches the exception inside procesar_pdf_separar.
GuardarFacturaFalla ==
    /\ \/ UNCHANGED fs
       \/ fs' = WriteFile(fs, RutaDeGuardado,
                          Contenido("separar", <<>>, PaginasEscritas(current_pages), FALSE))
    /\ pc' = "error"
    /\ sep_error' = "guardar"
    /\ UNCHANGED <<prog, varsTexto, varsGui, varsUnir, varsAlbaranes, total_pages, paginas_leidas,
                   current_number_key, current_pages, current_fecha, current_serie,
                   current_num_str, current_raw, results_saved, processed_invoices>>

\* lines 320-325 and 337-342 without the assignment to current_fecha
AbrirFacturaConFechaAnterior(pagina) ==
    /\ current_number_key' = KeyOf[pagina]
    /\ current_pages' = <<PaginaI>>
    /\ current_fecha' = current_fecha
    /\ current_serie' = Extraida[pagina][3]
    /\ current_num_str' = Extraida[pagina][4]
    /\ current_raw' = Extraida[pagina][1]

\* lines 320-325 and 337-342: a new group opens with page i and its fields
AbrirFactura(pagina) ==
    /\ current_number_key' = KeyOf[pagina]
    /\ current_pages' = <<PaginaI>>
    /\ current_fecha' = Extraida[pagina][2]
    /\ current_serie' = Extraida[pagina][3]
    /\ current_num_str' = Extraida[pagina][4]
    /\ current_raw' = Extraida[pagina][1]

\* lines 269-275: the PDF cannot be opened; the function returns 0, []
SepAbrirFalla ==
    /\ prog = "separar" /\ pc = "abrir"
    /\ pc' = "fin"
    /\ UNCHANGED <<prog, varsTexto, varsGui, fs, varsUnir, varsAlbaranes, varsSeparar>>

\* lines 270, 277-287: the PDF opens
SepAbrir ==
    /\ prog = "separar" /\ pc = "abrir"
    /\ pc' = "pagina"
    /\ UNCHANGED <<prog, varsTexto, varsGui, fs, varsUnir, varsAlbaranes, varsSeparar>>

\* lines 295-297: render_page_to_image or crop_region_from_image raises;
\* nothing catches it inside procesar_pdf_separar
SepRenderFalla ==
    /\ prog = "separar" /\ pc = "pagina"
    /\ PaginaI < total_pages
    /\ pc' = "error"
    /\ sep_error' = "render"
    /\ UNCHANGED <<prog, varsTexto, varsGui, fs, varsUnir, varsAlbaranes, total_pages, paginas_leidas,
                   current_number_key, current_pages, current_fecha, current_serie,
                   current_num_str, current_raw, results_saved, processed_invoices>>

\* lines 312-316 written so that a page without key is always left out
PaginasSinLaPagina(number_key, pages, i) == pages

\* lines 312-316: the pages of the open group after page i came without key
PaginasTrasSinClave(number_key, pages, i) ==
    IF number_key = None THEN pages ELSE Append(pages, i)

\* lines 310-316: a page without key joins the open group; with no group
\* open the loop goes on to the next page
SepPaginaSinClave ==
    /\ prog = "separar" /\ pc = "pagina"
    /\ PaginaI < total_pages
    /\ \E pagina \in Paginas :
           /\ KeyOf[pagina] = None
           /\ paginas_leidas' = Append(paginas_leidas, Extraida[pagina])
    /\ current_pages' = PaginasTrasSinClave(current_number_key, current_pages, PaginaI)
    /\ UNCHANGED <<prog, varsTexto, varsGui, pc, fs, varsUnir, varsAlbaranes, total_pages, current_number_key,
                   current_fecha, current_serie, current_num_str, current_raw,
                   results_saved, processed_invoices, sep_error>>

\* lines 319-327: the first page with a key opens the first group
SepIniciaFactura ==
    /\ prog = "separar" /\ pc = "pagina"
    /\ PaginaI < total_pages
    /\ current_number_key = None
    /\ \E pagina \in Paginas :
           /\ KeyOf[pagina] # None
           /\ paginas_leidas' = Append(paginas_leidas, Extraida[pagina])
           /\ AbrirFactura(pagina)
    /\ UNCHANGED <<prog, varsTexto, varsGui, pc, fs, varsUnir, varsAlbaranes, total_pages, results_saved,
                   processed_invoices, sep_error>>

\* lines 330-342: another key; the open group is saved and a new one opens
SepCambiaClave ==
    /\ prog = "separar" /\ pc = "pagina"
    /\ PaginaI < total_pages
    /\ current_number_key # None
    /\ \E pagina \in Paginas :
           /\ KeyOf[pagina] # None
           /\ KeyOf[pagina] # current_number_key
           /\ paginas_leidas' = Append(paginas_leidas, Extraida[pagina])
           /\ AbrirFactura(pagina)
    /\ GuardarFactura
    /\ UNCHANGED <<prog, varsTexto, varsGui, pc, varsUnir, varsAlbaranes, total_pages, sep_error>>

\* lines 330-332: another key, and saving the open group raises
SepCambiaClaveFalla ==
    /\ prog = "separar" /\ pc = "pagina"
    /\ PaginaI < total_pages
    /\ current_number_key # None
    /\ \E pagina \in Paginas :
           KeyOf[pagina] # None /\ KeyOf[pagina] # current_number_key
    /\ GuardarFacturaFalla

\* lines 343-346: the same key; the page joins the open group
SepMismaClave ==
    /\ prog = "separar" /\ pc = "pagina"
    /\ PaginaI < total_pages
    /\ current_number_key # None
    /\ \E pagina \in Paginas :
           /\ KeyOf[pagina] = current_number_key
           /\ paginas_leidas' = Append(paginas_leidas, Extraida[pagina])
    /\ current_pages' = Append(current_pages, PaginaI)
    /\ UNCHANGED <<prog, varsTexto, varsGui, pc, fs, varsUnir, varsAlbaranes, total_pages, current_number_key,
                   current_fecha, current_serie, current_num_str, current_raw,
                   results_saved, processed_invoices, sep_error>>

\* the test of line 349 never passing
NuncaHayFacturaEnCurso == FALSE

\* the test of line 349
HayFacturaEnCurso == current_pages # <<>> /\ current_number_key # None

\* lines 348-359: after the last page the open group, if any, is saved
SepFinal ==
    /\ prog = "separar" /\ pc = "pagina"
    /\ PaginaI >= total_pages
    /\ IF HayFacturaEnCurso
       THEN GuardarFactura
       ELSE UNCHANGED <<fs, results_saved, processed_invoices>>
    /\ pc' = "fin"
    /\ UNCHANGED <<prog, varsTexto, varsGui, varsUnir, varsAlbaranes, total_pages, paginas_leidas,
                   current_number_key, current_pages, current_fecha, current_serie,
                   current_num_str, current_raw, sep_error>>

\* lines 349-351: saving the last group raises
SepFinalFalla ==
    /\ prog = "separar" /\ pc = "pagina"
    /\ PaginaI >= total_pages
    /\ HayFacturaEnCurso
    /\ GuardarFacturaFalla

\* ------------------------------------------------------- albaranes: inputs
\* what extract_albaran_from_text can return for a file: a 4-digit number or None
NumerosAlbaran == {Ref1608, zfill(Ref487, 4)}

\* the files of the source folder, by position in the listing
ArchivoOrigen(n) == <<"s">> \o IntToStr(n) \o DotPdf

\* f"Albaran n. {numero}" (the accented letters of the source are written plain)
AlbaranStem(numero) ==
    <<"A", "l", "b", "a", "r", "a", "n", " ", "n", "o", " ">> \o numero

CarpetasDestinoAlbaranes == {<<>>, [n \in {AlbaranStem(Ref1608) \o DotPdf} |-> Previo]}

\* ------------------------------------- albaranes: SimpleApp.start_process
\* renombrar_y_copiar, lines 231-237: the first of "Albaran n. N.pdf",
\* "Albaran n. N (1).pdf", ... that does not exist
RECURSIVE NuevaRutaFrom(_, _, _, _)
NuevaRutaFrom(files, numero, nueva_ruta, contador) ==
    IF ~Exists(files, nueva_ruta) THEN nueva_ruta
    ELSE NuevaRutaFrom(files, numero,
                       AlbaranStem(numero) \o CounterSuffix(contador) \o DotPdf, contador + 1)

NuevaRuta(files, numero) == NuevaRutaFrom(files, numero, AlbaranStem(numero) \o DotPdf, 1)

\* lines 291-302
InitAlbaranes ==
    /\ total_archivos \in 0..MaxArchivos
    /\ alb_idx = 0
    /\ procesados = 0
    /\ fallidos = <<>>

IdleAlbaranes ==
    /\ total_archivos = 0
    /\ alb_idx = 0
    /\ procesados = 0
    /\ fallidos = <<>>

\* lines 307-313: the region cannot be rendered; the file is listed as failed
AlbRenderFalla ==
    /\ prog = "albaranes" /\ pc = "archivo"
    /\ alb_idx < total_archivos
    /\ alb_idx' = alb_idx + 1
    /\ fallidos' = Append(fallidos, ArchivoOrigen(alb_idx + 1))
    /\ UNCHANGED <<prog, varsTexto, varsGui, pc, fs, varsUnir, varsSeparar, total_archivos, procesados>>

\* lines 335-338 and renombrar_y_copiar: a number was read; the file is copied
AlbCopiar ==
    /\ prog = "albaranes" /\ pc = "archivo"
    /\ alb_idx < total_archivos
    /\ \E numero \in NumerosAlbaran :
           fs' = WriteFile(fs, NuevaRuta(fs, numero),
                           Contenido("albaranes", <<ArchivoOrigen(alb_idx + 1)>>, <<>>, TRUE))
    /\ alb_idx' = alb_idx + 1
    /\ procesados' = procesados + 1
    /\ UNCHANGED <<prog, varsTexto, varsGui, pc, varsUnir, varsSeparar, total_archivos, fallidos>>

\* line 238: shutil.copy2 raises; nothing in start_process catches it
AlbCopiarFalla ==
    /\ prog = "albaranes" /\ pc = "archivo"
    /\ alb_idx < total_archivos
    /\ \/ UNCHANGED fs
       \/ \E numero \in NumerosAlbaran :
              fs' = WriteFile(fs, NuevaRuta(fs, numero),
                              Contenido("albaranes", <<ArchivoOrigen(alb_idx + 1)>>, <<>>, FALSE))
    /\ pc' = "error"
    /\ UNCHANGED <<prog, varsTexto, varsGui, varsUnir, varsSeparar, varsAlbaranes>>

\* lines 339-349: no number was read; the file is listed as failed
AlbNoDetectado ==
    /\ prog = "albaranes" /\ pc = "archivo"
    /\ alb_idx < total_archivos
    /\ alb_idx' = alb_idx + 1
    /\ fallidos' = Append(fallidos, ArchivoOrigen(alb_idx + 1))
    /\ UNCHANGED <<prog, varsTexto, varsGui, pc, fs, varsUnir, varsSeparar, total_archivos, procesados>>

\* lines 354-366: the loop is over
AlbFin ==
    /\ prog = "albaranes" /\ pc = "archivo"
    /\ alb_idx >= total_archivos
    /\ pc' = "fin"
    /\ UNCHANGED <<prog, varsTexto, varsGui, fs, varsUnir, varsSeparar, varsAlbaranes>>

\* ------------------------------------------------- separar: AppSeparador
\* The window of the splitter. The main thread runs the handlers of the
\* buttons one at a time; each click on INICIAR SEPARACION that passes line
\* 426 creates a thread that runs _run_process. What procesar_pdf_separar
\* does to the output folder is left to the page loop above: here a run is
\* the calls it makes to the window, and the way it ends.
RutaPdf == <<"x", ".", "p", "d", "f">>
RutaSalida == <<"o", "u", "t">>

\* line 430 left out: the button keeps the state tk.NORMAL
BotonSinDesactivar == "normal"

\* tk.DISABLED, the state line 430 gives the button
BotonAlIniciar == "disabled"

\* line 435: a thread about to run _run_process on a PDF of `total` pages
HiloNuevo(total) == [pc |-> "procesar", i |-> 0, total |-> total]

\* the threads that were started and have not run their last statement
HilosActivos == {t \in DOMAIN hilos : hilos[t].pc # "terminado"}

\* the window before any click, lines 363-395; also the window of a script
\* that has none
InitGui ==
    /\ entry_pdf = <<>>
    /\ entry_out = <<>>
    /\ btn_start = "normal"
    /\ status_var = "Listo"
    /\ progress = [value |-> 0, maximum |-> 100]
    /\ hilos = <<>>

\* select_pdf, lines 397-401, a file being chosen
SelectPdf ==
    /\ prog = "gui"
    /\ entry_pdf' = RutaPdf
    /\ UNCHANGED <<prog, pc, fs, varsUnir, varsSeparar, varsAlbaranes, varsTexto,
                   entry_out, btn_start, status_var, progress, hilos>>

\* select_out, lines 403-407, a folder being chosen
SelectOut ==
    /\ prog = "gui"
    /\ entry_out' = RutaSalida
    /\ UNCHANGED <<prog, pc, fs, varsUnir, varsSeparar, varsAlbaranes, varsTexto,
                   entry_pdf, btn_start, status_var, progress, hilos>>

\* start_process, lines 423-436. Tk calls the handler only while the button
\* is not disabled. With an entry empty a warning is shown and nothing
\* changes; else the button is disabled and a thread is started.
StartProcess ==
    /\ prog = "gui"
    /\ btn_start = "normal"
    /\ Len(hilos) < MaxEjecuciones
    /\ IF entry_pdf = <<>> \/ entry_out = <<>>
       THEN UNCHANGED <<btn_start, status_var, progress, hilos>>
       ELSE /\ btn_start' = BotonAlIniciar
            /\ status_var' = "Iniciando proceso"
            /\ progress' = [progress EXCEPT !.value = 0]
            /\ \E total \in 0..MaxPages : hilos' = Append(hilos, HiloNuevo(total))
    /\ UNCHANGED <<prog, pc, fs, varsUnir, varsSeparar, varsAlbaranes, varsTexto,
                   entry_pdf, entry_out>>

\* procesar_pdf_separar, lines 269-275: the PDF cannot be opened; the
\* function tells the window and returns
HiloAbrirFalla ==
    /\ prog = "gui"
    /\ \E t \in DOMAIN hilos :
           /\ hilos[t].pc = "procesar" /\ hilos[t].i = 0
           /\ status_var' = "ERROR abriendo PDF"
           /\ hilos' = [hilos EXCEPT ![t].pc = "mensaje"]
           /\ UNCHANGED <<btn_start, progress>>
    /\ UNCHANGED <<prog, pc, fs, varsUnir, varsSeparar, varsAlbaranes, varsTexto,
                   entry_pdf, entry_out>>

\* procesar_pdf_separar, lines 289-293: the next page; progress_callback and
\* status_callback are called
HiloPagina ==
    /\ prog = "gui"
    /\ \E t \in DOMAIN hilos :
           /\ hilos[t].pc = "procesar" /\ hilos[t].i < hilos[t].total
           /\ progress' = [value |-> hilos[t].i + 1, maximum |-> hilos[t].total]
           /\ status_var' = "Procesando pagina"
           /\ hilos' = [hilos EXCEPT ![t].i = hilos[t].i + 1]
           /\ UNCHANGED btn_start
    /\ UNCHANGED <<prog, pc, fs, varsUnir, varsSeparar, varsAlbaranes, varsTexto,
                   entry_pdf, entry_out>>

\* procesar_pdf_separar, lines 355-359: the loop is over and the function returns
HiloProcesoTermina ==
    /\ prog = "gui"
    /\ \E t \in DOMAIN hilos :
           /\ hilos[t].pc = "procesar" /\ hilos[t].i = hilos[t].total
           /\ status_var' = "Proceso terminado"
           /\ hilos' = [hilos EXCEPT ![t].pc = "mensaje"]
           /\ UNCHANGED <<btn_start, progress>>
    /\ UNCHANGED <<prog, pc, fs, varsUnir, varsSeparar, varsAlbaranes, varsTexto,
                   entry_pdf, entry_out>>

\* _run_process, lines 445-447: the message of the end is shown
HiloMensaje ==
    /\ prog = "gui"
    /\ \E t \in DOMAIN hilos :
           /\ hilos[t].pc = "mensaje"
           /\ status_var' = "Proceso finalizado"
           /\ hilos' = [hilos EXCEPT ![t].pc = "finally"]
           /\ UNCHANGED <<btn_start, progress>>
    /\ UNCHANGED <<prog, pc, fs, varsUnir, varsSeparar, varsAlbaranes, varsTexto,
                   entry_pdf, entry_out>>

\* _run_process, lines 448-451: an exception raised by procesar_pdf_separar
\* or by lines 445-447 is caught and shown
HiloExcept ==
    /\ prog = "gui"
    /\ \E t \in DOMAIN hilos :
           /\ hilos[t].pc \in {"procesar", "mensaje"}
           /\ status_var' = "ERROR"
           /\ hilos' = [hilos EXCEPT ![t].pc = "finally"]
           /\ UNCHANGED <<btn_start, progress>>
    /\ UNCHANGED <<prog, pc, fs, varsUnir, varsSeparar, varsAlbaranes, varsTexto,
                   entry_pdf, entry_out>>

\* _run_process, lines 452-453: the finally clause, the last statement of
\* the thread, which also runs when lines 449-451 raise
HiloFinally ==
    /\ prog = "gui"
    /\ \E t \in DOMAIN hilos :
           /\ hilos[t].pc = "finally"
           /\ btn_start' = "normal"
           /\ hilos' = [hilos EXCEPT ![t].pc = "terminado"]
           /\ UNCHANGED <<status_var, progress>>
    /\ UNCHANGED <<prog, pc, fs, varsUnir, varsSeparar, varsAlbaranes, varsTexto,
                   entry_pdf, entry_out>>

\* ------------------------------------------ separar: the key of one text
\* The characters the OCR mixes up, the pairs OCR_CONFUSION_MAP (lines 47-54)
\* was written for: the characters that can be read in place of c.
Confusiones(c) ==
    CASE c = "0" -> {"O"}
      [] c = "O" -> {"0"}
      [] c = "1" -> {"I", "l"}
      [] c \in {"I", "l"} -> {"1"}
      [] c = "5" -> {"S"}
      [] c = "S" -> {"5"}
      [] c = "8" -> {"B"}
      [] c = "B" -> {"8"}
      [] OTHER -> {}

\* texts of the number block, as printed
TextosImpresos ==
    { <<"A", " ", "1", "6", "0", "8">>,
      <<"F", "1", "5", "0">>,
      <<"S", " ", "1", "2">>,
      <<"A", "B", " ", "5">>,
      <<"B", " ", "8", "0", "5">>,
      <<"C", " ", "0", "1", "0", "5">>,
      <<"1", "2", "3", "4", "5">>,
      <<"7">> }

\* lines 304 and 307 for a block whose candidate text is raw
ClaveDeExtraida(e) == make_key_from_parts(e[3], e[4], e[1])

ClaveDeTexto(raw) == ClaveDeExtraida(extract_number_and_date_from_text(Pagina(raw, None)))

\* no text is being keyed
IdleTexto ==
    /\ texto_impreso = None
    /\ texto_ocr = None
    /\ clave_impresa = None
    /\ clave_ocr = None

\* a printed text, so far read as it is printed
InitTexto ==
    /\ prog = "texto"
    /\ pc = "ocr"
    /\ fs = <<>>
    /\ IdleUnir /\ IdleSeparar /\ IdleAlbaranes /\ InitGui
    /\ texto_impreso \in TextosImpresos
    /\ texto_ocr = texto_impreso
    /\ clave_impresa = None
    /\ clave_ocr = None

\* ocr_image_to_text, lines 113-121: one character is read as a character it
\* is mixed up with
OcrConfunde ==
    /\ prog = "texto" /\ pc = "ocr"
    /\ \E i \in DOMAIN texto_ocr : \E c \in Confusiones(texto_ocr[i]) :
           texto_ocr' = [texto_ocr EXCEPT ![i] = c]
    /\ UNCHANGED <<prog, pc, fs, varsUnir, varsSeparar, varsAlbaranes, varsGui,
                   texto_impreso, clave_impresa, clave_ocr>>

\* lines 304-307: the key of the text as printed and of the text as read
Normalizar ==
    /\ prog = "texto" /\ pc = "ocr"
    /\ pc' = "clave"
    /\ clave_impresa' = ClaveDeTexto(texto_impreso)
    /\ clave_ocr' = ClaveDeTexto(texto_ocr)
    /\ UNCHANGED <<prog, fs, varsUnir, varsSeparar, varsAlbaranes, varsGui,
                   texto_impreso, texto_ocr>>

\* ------------------------------------------------------------ specification
Init ==
    \/ /\ prog = "unir"
       /\ pc = "for"
       /\ fs \in CarpetasDestino
       /\ InitUnir /\ IdleSeparar /\ IdleAlbaranes /\ IdleTexto /\ InitGui
    \/ /\ prog = "separar"
       /\ pc = "abrir"
       /\ fs \in CarpetasDestinoSeparar
       /\ InitSeparar /\ IdleUnir /\ IdleAlbaranes /\ IdleTexto /\ InitGui
    \/ /\ prog = "albaranes"
       /\ pc = "archivo"
       /\ fs \in CarpetasDestinoAlbaranes
       /\ InitAlbaranes /\ IdleUnir /\ IdleSeparar /\ IdleTexto /\ InitGui

Next ==
    \/ SiguienteFactura
    \/ ExtraerNombreCliente
    \/ ExtraerNumeros
    \/ BuscarAlbaran
    \/ ElegirSalida
    \/ CombinarPdfs
    \/ CombinarPdfsFalla
    \/ ExcepcionEnFactura
    \/ ResumenFinal
    \/ SepAbrir
    \/ SepAbrirFalla
    \/ SepRenderFalla
    \/ SepPaginaSinClave
    \/ SepIniciaFactura
    \/ SepCambiaClave
    \/ SepCambiaClaveFalla
    \/ SepMismaClave
    \/ SepFinal
    \/ SepFinalFalla
    \/ AlbRenderFalla
    \/ AlbCopiar
    \/ AlbCopiarFalla
    \/ AlbNoDetectado
    \/ AlbFin

Spec == Init /\ [][Next]_vars

\* the keying of one text of the number block
NextTexto ==
    \/ OcrConfunde
    \/ Normalizar

SpecTexto == InitTexto /\ [][NextTexto]_vars

\* the window of the splitter and the threads it starts
InitVentana ==
    /\ prog = "gui"
    /\ pc = "mainloop"
    /\ fs = <<>>
    /\ IdleUnir /\ IdleSeparar /\ IdleAlbaranes /\ IdleTexto
    /\ InitGui

NextGui ==
    \/ SelectPdf
    \/ SelectOut
    \/ StartProcess
    \/ HiloAbrirFalla
    \/ HiloPagina
    \/ HiloProcesoTermina
    \/ HiloMensaje
    \/ HiloExcept
    \/ HiloFinally

SpecGui == InitVentana /\ [][NextGui]_vars

\* a step of main() of procesa_facturas_y_albaranes.py
PasoDeMain ==
    \/ SiguienteFactura
    \/ ExtraerNombreCliente
    \/ ExtraerNumeros
    \/ BuscarAlbaran
    \/ ElegirSalida
    \/ CombinarPdfs
    \/ CombinarPdfsFalla
    \/ ExcepcionEnFactura
    \/ ResumenFinal

\* main() runs on: none of its statements waits for anything, so while a
\* step of it is possible one is taken
FairSpec == Spec /\ WF_vars(PasoDeMain)

\* ------------------------------------------------------------- properties
\* the entries of the missing list made while `factura` was processed
FaltantesDe(factura) == SelectSeq(albaranes_faltantes, LAMBDA e : e[1] = factura)

\* the elements of seq at the positions where marca is b, in order
Elegidos(seq, marca, b) ==
    LET pos == SelectSeq([i \in DOMAIN marca |-> i], LAMBDA i : marca[i] = b)
    IN  [j \in DOMAIN pos |-> seq[pos[j]]]

\* the numbers of the entries of a missing list, in order
NumerosDe(faltantes) == [j \in DOMAIN faltantes |-> faltantes[j][2]]

\* C1: while an invoice is resolved, each of the references handled so far
\* (nums[1..k-1], repeats included) has produced exactly one outcome, in
\* order: the found ones are the paths added to the merge list, the others
\* are the entries of the missing list, so found + missing is the number of
\* references handled; a miss leaves the loop running, and the list is only
\* merged once every reference was handled.
C1_UnResultadoPorReferencia ==
    (prog = "unir" /\ pc \in {"buscar", "combinar"}) =>
        /\ k - 1 <= Len(nums)
        /\ (pc = "combinar" => k - 1 = Len(nums))
        /\ encontrados_para_factura + Len(FaltantesDe(Factura)) = k - 1
        /\ \E marca \in [1..(k - 1) -> BOOLEAN] :
               /\ Elegidos(nums, marca, FALSE) = NumerosDe(FaltantesDe(Factura))
               /\ Len(Elegidos(nums, marca, TRUE)) = encontrados_para_factura
               /\ Len(lista_a_unir) = 1 + encontrados_para_factura
               /\ \A j \in 1..encontrados_para_factura :
                      NameMatches(Elegidos(nums, marca, TRUE)[j], lista_a_unir[j + 1])

\* C1: three references, the first and the third the same number, all
\* handled, with some found and some missing
C1_Witness ==
    /\ prog = "unir" /\ pc = "buscar"
    /\ Len(nums) = 3 /\ k = 4
    /\ nums[1] = nums[3] /\ nums[1] # nums[2]
    /\ encontrados_para_factura = 2
    /\ Len(FaltantesDe(Factura)) = 1

\* some file of the pool has a name that matches num
HayEnPool(num) == \E i \in DOMAIN pool : Coincide[num, pool[i].name]

\* the output folder is searched too, and the name of a file of it matches num
HayEnDestino(num) ==
    destino_en_albaranes /\ \E f \in DOMAIN fs : NameMatches(num, f)

\* the first file of the pool, in walk order, whose name matches num
PrimerArchivo(num) ==
    pool[CHOOSE i \in DOMAIN pool :
             /\ Coincide[num, pool[i].name]
             /\ \A h \in 1..(i - 1) : ~Coincide[num, pool[h].name]].name

\* the references of the invoice that some file searched matches, in order
Resueltos ==
    SelectSeq(nums, LAMBDA n : HayEnPool(n) \/ HayEnDestino(n))

\* the merge list is the invoice followed by the file of each of the
\* references resueltos, in their order
ListaDeResueltos(resueltos) ==
    /\ lista_a_unir[1] = Factura
    /\ Len(lista_a_unir) = 1 + Len(resueltos)
    /\ \A j \in DOMAIN resueltos :
           IF HayEnPool(resueltos[j])
           THEN lista_a_unir[j + 1] = PrimerArchivo(resueltos[j])
           ELSE \E f \in DOMAIN fs : /\ NameMatches(resueltos[j], f)
                                     /\ lista_a_unir[j + 1] = EnDestino(f)

\* C2: the list handed to the merge is the invoice followed by the file of
\* every resolved reference, in the order of the references, a file that two
\* references resolve to appearing twice.
C2_ListaEnOrdenDeReferencia ==
    (prog = "unir" /\ pc = "combinar") => ListaDeResueltos(Resueltos)

\* C2: a list about to be merged with two different files, the first of
\* them twice
C2_Witness ==
    /\ prog = "unir" /\ pc = "combinar"
    /\ Len(lista_a_unir) = 4
    /\ lista_a_unir[2] = lista_a_unir[4]
    /\ lista_a_unir[2] # lista_a_unir[3]

\* name with " (c)" put in front of its extension
ConContador(name, c) == splitext(name)[1] \o CounterSuffix(c) \o splitext(name)[2]

\* name when it is free, else the first free one of "name (1)", "name (2)", ...
PrimerLibre(files, name) ==
    IF name \notin DOMAIN files THEN name
    ELSE ConContador(name,
                     CHOOSE c \in 1..(Cardinality(DOMAIN files) + 1) :
                         /\ ConContador(name, c) \notin DOMAIN files
                         /\ \A d \in 1..(c - 1) : ConContador(name, d) \in DOMAIN files)

\* the output names the program may be about to compute in this state
NombresCalculados ==
    CASE prog = "unir" ->
             IF pc = "combinar"
             THEN {SalidaNombre(splitext(Factura), nombre_cliente)} ELSE {}
      [] prog = "separar" ->
             IF current_number_key # None
             THEN {SaveFilename(current_fecha, current_serie, current_num_str, current_raw)}
             ELSE {}
      [] OTHER -> {AlbaranStem(numero) \o DotPdf : numero \in NumerosAlbaran}

\* C3: no step of any of the three scripts changes or removes a file that
\* is already in the output folder, and a file a step creates has the
\* computed name when that is free, else the first free name of
\* "name (1)", "name (2)", ...
C3_NuncaSobrescribe ==
    [][ /\ \A n \in DOMAIN fs : n \in DOMAIN fs' /\ fs'[n] = fs[n]
        /\ \A n \in DOMAIN fs' \ DOMAIN fs :
               \E calculado \in NombresCalculados : n = PrimerLibre(fs, calculado)
      ]_vars

\* C3: the same name was computed for two invoices of one run: the run
\* wrote both name.pdf and "name (1).pdf"
C3_Witness ==
    /\ prog = "unir" /\ pc = "for"
    /\ \E n \in DOMAIN fs :
           /\ fs[n].origen = "unir"
           /\ ConContador(n, 1) \in DOMAIN fs
           /\ fs[ConContador(n, 1)].origen = "unir"

\* the key of line 307 for everything line 304 can return for a page of the
\* input set, worked out once
ClaveDeLoExtraido ==
    [e \in {extract_number_and_date_from_text(pagina) : pagina \in Paginas} |->
        make_key_from_parts(e[3], e[4], e[1])]

\* the key of each page read so far (line 307)
ClavesLeidas == [j \in DOMAIN paginas_leidas |-> ClaveDeLoExtraido[paginas_leidas[j]]]

\* page index p is one of the pages of some file the run wrote
PaginaEmitida(p) ==
    \E n \in DOMAIN fs :
        fs[n].origen = "separar" /\ \E j \in DOMAIN fs[n].paginas : fs[n].paginas[j] = p

\* C4: when the page loop has run over every page without an error, every
\* page of the input, a page without key ahead of the first group included,
\* is in some output file.
C4_NingunaPaginaSePierde ==
    (prog = "separar" /\ pc = "fin" /\ PaginaI = total_pages) =>
        \A p \in 0..(total_pages - 1) : PaginaEmitida(p)

\* C5: for five pages with keys null, null, K1, null, K2 the run ends with
\* two files, the first with pages 0 to 3 and the second with page 4.
C5_DosGruposConPrefijo ==
    ( /\ prog = "separar" /\ pc = "fin"
      /\ total_pages = 5 /\ PaginaI = 5
      /\ ClavesLeidas[1] = None /\ ClavesLeidas[2] = None
      /\ ClavesLeidas[3] # None /\ ClavesLeidas[4] = None
      /\ ClavesLeidas[5] # None /\ ClavesLeidas[5] # ClavesLeidas[3] ) =>
        /\ Len(results_saved) = 2
        /\ fs[results_saved[1]].paginas = <<0, 1, 2, 3>>
        /\ fs[results_saved[2]].paginas = <<4>>

\* each page index is the one before it plus one
Contiguas(pags) == \A j \in 1..(Len(pags) - 1) : pags[j + 1] = pags[j] + 1

\* C6: the page indexes of the open group and of every file the run wrote
\* are strictly increasing and contiguous, and no file is empty.
C6_PaginasContiguas ==
    prog = "separar" =>
        /\ Contiguas(current_pages)
        /\ \A n \in DOMAIN fs :
               fs[n].origen = "separar" =>
                   fs[n].paginas # <<>> /\ Contiguas(fs[n].paginas)

\* C6: a finished run over K1, null, K2, K1: three files, the first with
\* the page without key, the key of the first group back in the third
C6_Witness ==
    /\ prog = "separar" /\ pc = "fin"
    /\ PaginaI = 4
    /\ ClavesLeidas[1] # None /\ ClavesLeidas[2] = None
    /\ ClavesLeidas[3] \notin {None, ClavesLeidas[1]}
    /\ ClavesLeidas[4] = ClavesLeidas[1]
    /\ Len(results_saved) = 3
    /\ fs[results_saved[1]].paginas = <<0, 1>>
    /\ fs[results_saved[3]].paginas = <<3>>

\* no file searched matches any reference of the invoice
NingunaResuelta ==
    \A i \in DOMAIN nums : ~HayEnPool(nums[i]) /\ ~HayEnDestino(nums[i])

C8_ResueltaPorContenido ==
    prog = "unir" =>
        \A e \in DOMAIN albaranes_faltantes :
            \A j \in DOMAIN pool :
                ~(IsPdfName(pool[j].name)
                    /\ SearchWholeWord(albaranes_faltantes[e][2], pool[j].body))

\* C9: once the pass of any invoice has raised, the run still gets to the
\* summary, with every invoice of the listing visited.
C9_ElBucleLlegaAlResumen ==
    (prog = "unir" /\ errores_log # <<>>) ~>
        ( /\ pc = "fin"
          /\ idx = Len(archivos_facturas)
          /\ resumen = <<total_procesadas, Len(archivos_facturas), Len(albaranes_faltantes)>> )

\* C9: the summary of a run over two invoices, the pass of the first having
\* raised and the second having been combined
C9_Witness ==
    /\ prog = "unir" /\ pc = "fin"
    /\ Len(archivos_facturas) = 2
    /\ errores_log = <<archivos_facturas[1]>>
    /\ total_procesadas = 1
    /\ resumen # <<>>

\* C10: a write that fails never ends the page loop of the splitter.
C10_FalloDeEscrituraNoDetiene ==
    prog = "separar" => ~(pc = "error" /\ sep_error = "guardar")

\* C11: a step that writes an output and counts it as combined writes the
\* pages of every file of the merge list, in merge-list order.
C11_SalidaConTodaLaLista ==
    [][ (prog = "unir" /\ pc = "combinar" /\ total_procesadas' = total_procesadas + 1) =>
            /\ final_path \in DOMAIN fs'
            /\ fs'[final_path].docs = lista_a_unir
      ]_vars

\* C12: whatever happened to the run, every file of the output folder is a
\* complete output: no file holds a write that was cut short.
C12_SinEscriturasParciales == \A n \in DOMAIN fs : fs[n].completo

\* C13: the files a reference can resolve to are the files the folders held
\* when the run began: no path of a merge list is a file this run wrote.
C13_ResolucionSinSalidasPropias ==
    prog = "unir" =>
        \A j \in DOMAIN lista_a_unir : \A f \in DOMAIN fs :
            lista_a_unir[j] = EnDestino(f) => fs[f].origen # "unir"

\* the warnings logged for `factura` other than those of lines 247 and 260,
\* which tell of an invoice without references and of a reference not found
AvisosDeRepetidos(factura) ==
    SelectSeq(avisos, LAMBDA a : a[2] = factura /\ a[1] \notin {"sin albaranes", "no encontrado"})

\* C14: when a merge list is about to be merged and holds the same resolved
\* path at two positions, both are in the list and a warning about the
\* repeat was logged for the invoice.
C14_RepetidosAvisados ==
    (prog = "unir" /\ pc = "combinar") =>
        \A i \in 2..Len(lista_a_unir) : \A j \in (i + 1)..Len(lista_a_unir) :
            lista_a_unir[i] = lista_a_unir[j] => AvisosDeRepetidos(Factura) # <<>>

\* a key of the form serie#number, as opposed to None and to RAW#text
EsClaveCanonica(key) ==
    /\ key # None
    /\ \E h \in DOMAIN key :
           /\ key[h] = "#"
           /\ Len(key) - h = 4
           /\ \A j \in (h + 1)..Len(key) : key[j] \in Digits
           /\ \A j \in 1..(h - 1) : key[j] \in Letters

\* C15: a text whose printed form has a canonical key has the same key in
\* every form the OCR can read it in, with any of its characters read as
\* the character it is mixed up with (O and 0, I or l and 1, S and 5, B and 8).
C15_ConfusionNoCambiaLaClave ==
    (prog = "texto" /\ pc = "clave" /\ EsClaveCanonica(clave_impresa)) =>
        clave_ocr = clave_impresa

\* C15: "A 1608" read as "A l6OB" and keyed
C15_Witness ==
    /\ prog = "texto" /\ pc = "clave"
    /\ texto_impreso = <<"A", " ", "1", "6", "0", "8">>
    /\ texto_ocr = <<"A", " ", "l", "6", "O", "B">>
    /\ clave_ocr = <<"A", "#", "1", "6", "0", "8">>

\* the letters a text begins with
PrefijoDe(raw) == SubSeq(raw, 1, RunEnd(raw, 1, Letters, TRUE) - 1)

\* where the digits start that follow the letters a text begins with and the
\* spaces after them
InicioDelGrupo(raw) == RunEnd(raw, RunEnd(raw, 1, Letters, TRUE), Spaces, TRUE)

\* those digits, up to the first character that is not a digit
GrupoDe(raw) == SubSeq(raw, InicioDelGrupo(raw), RunEnd(raw, InicioDelGrupo(raw), Digits, TRUE) - 1)

\* a text made of a series prefix of at most 5 letters, spaces, and a group
\* of digits that ends the text
EsSerieYNumero(raw) ==
    /\ Len(PrefijoDe(raw)) <= 5
    /\ GrupoDe(raw) # <<>>
    /\ RunEnd(raw, InicioDelGrupo(raw), Digits, TRUE) = Len(raw) + 1

\* the letters that OCR_CONFUSION_MAP replaces
LetrasConfusas == {"O", "o", "I", "l", "Z", "S", "B"}

\* C16: a printed text made of a series prefix that holds a letter of the
\* confusion table and of a group of 1 to 4 digits has the key whose series
\* is the prefix in upper case and whose number is the group, padded.
C16_SerieSinCorregir ==
    (/\ prog = "texto" /\ pc = "clave"
     /\ EsSerieYNumero(texto_impreso)
     /\ Len(GrupoDe(texto_impreso)) <= 4
     /\ \E j \in DOMAIN PrefijoDe(texto_impreso) : PrefijoDe(texto_impreso)[j] \in LetrasConfusas) =>
        clave_impresa = Upper(PrefijoDe(texto_impreso)) \o <<"#">> \o zfill(GrupoDe(texto_impreso), 4)

\* the last n characters of s, all of s when it is shorter
Ultimos(s, n) == SubSeq(s, IF Len(s) > n THEN Len(s) - n + 1 ELSE 1, Len(s))

\* the part of a key after its #
NumeroDeClave(key) == SubSeq(key, RunEnd(key, 1, {"#"}, FALSE) + 1, Len(key))

\* C20: the number of the key of a printed text made of an optional series
\* and a group of digits is the last 4 digits of the group, padded on the
\* left to 4 digits.
C20_UltimosCuatroDigitos ==
    (/\ prog = "texto" /\ pc = "clave"
     /\ EsSerieYNumero(texto_impreso)
     /\ \A j \in DOMAIN PrefijoDe(texto_impreso) : PrefijoDe(texto_impreso)[j] \notin LetrasConfusas) =>
        NumeroDeClave(clave_impresa) = zfill(Ultimos(GrupoDe(texto_impreso), 4), 4)

\* the step handles a page to the end of the loop body: the log of line 305
\* has one more entry
PaginaTratada == Len(paginas_leidas') = Len(paginas_leidas) + 1

\* what line 304 returned for the page the step handles
ExtraidaEnElPaso == paginas_leidas'[Len(paginas_leidas')]

\* the key of line 307 for the page the step handles
ClaveEnElPaso == ClaveDeExtraida(ExtraidaEnElPaso)

\* the group that is open after the step has the page of the step as its
\* only page, and the key and the fields of that page
GrupoNuevoConLaPagina ==
    /\ current_pages' = <<PaginaI>>
    /\ current_number_key' = ClaveEnElPaso
    /\ current_raw' = ExtraidaEnElPaso[1]
    /\ current_fecha' = ExtraidaEnElPaso[2]
    /\ current_serie' = ExtraidaEnElPaso[3]
    /\ current_num_str' = ExtraidaEnElPaso[4]

\* the step writes nothing and reports nothing
NadaEmitido ==
    /\ fs' = fs
    /\ results_saved' = results_saved
    /\ processed_invoices' = processed_invoices

\* the step writes one new file, with the pages of the group that was open,
\* and reports it
GrupoAbiertoEmitido ==
    /\ processed_invoices' = processed_invoices + 1
    /\ \E path \in DOMAIN fs' \ DOMAIN fs :
           /\ DOMAIN fs' = DOMAIN fs \cup {path}
           /\ \A n \in DOMAIN fs : fs'[n] = fs[n]
           /\ fs'[path].paginas = current_pages
           /\ fs'[path].completo
           /\ results_saved' = Append(results_saved, path)

\* C17: a step that handles a page with a key other than the key of the open
\* group writes the open group, with the pages it has, and opens a group with
\* this page as first page and this page's key and fields; with no group
\* open it opens that group and writes nothing.
C17_CambioDeClaveCierraYAbre ==
    [][ (/\ prog = "separar" /\ pc = "pagina" /\ PaginaTratada
         /\ ClaveEnElPaso # None /\ ClaveEnElPaso # current_number_key) =>
            /\ GrupoNuevoConLaPagina
            /\ IF current_number_key = None THEN NadaEmitido ELSE GrupoAbiertoEmitido
      ]_vars

\* C17: a group with a date and two pages was closed by a page with another
\* key and no date, which is the only page of the open group
C17_Witness ==
    /\ prog = "separar" /\ pc = "pagina"
    /\ PaginaI = 3
    /\ Len(results_saved) = 1
    /\ fs[results_saved[1]].paginas = <<0, 1>>
    /\ paginas_leidas[1][2] # None
    /\ current_pages = <<2>>
    /\ current_number_key = ClavesLeidas[3]
    /\ current_fecha = None

\* after the step a field of the open group is what it was when it had a
\* value, and what the page of the step gives for it when it had none
CampoCompletado(antes, despues, de_la_pagina) ==
    IF antes # None THEN despues = antes
    ELSE de_la_pagina # None => despues = de_la_pagina

\* C18: a step that handles a page without key, or with the key of the open
\* group, while a group is open appends the page to the group and writes
\* nothing; the date, series and number the group has stay, and one that it
\* lacks and the page gives is taken from the page.
C18_ContinuacionCompletaCampos ==
    [][ (/\ prog = "separar" /\ pc = "pagina" /\ PaginaTratada
         /\ current_number_key # None
         /\ ClaveEnElPaso \in {None, current_number_key}) =>
            /\ current_pages' = Append(current_pages, PaginaI)
            /\ current_number_key' = current_number_key
            /\ NadaEmitido
            /\ CampoCompletado(current_fecha, current_fecha', ExtraidaEnElPaso[2])
            /\ CampoCompletado(current_serie, current_serie', ExtraidaEnElPaso[3])
            /\ CampoCompletado(current_num_str, current_num_str', ExtraidaEnElPaso[4])
      ]_vars

\* the key of the last page before position j that has a key, None when
\* there is none: the key of the group open when page j is handled
ClaveDelGrupoAntes(j) ==
    IF \A h \in 1..(j - 1) : ClavesLeidas[h] = None THEN None
    ELSE ClavesLeidas[CHOOSE h \in 1..(j - 1) :
                          /\ ClavesLeidas[h] # None
                          /\ \A g \in (h + 1)..(j - 1) : ClavesLeidas[g] = None]

\* the positions of the pages that opened a group, in order
PaginasQueAbren ==
    SelectSeq([j \in DOMAIN paginas_leidas |-> j],
              LAMBDA j : ClavesLeidas[j] # None /\ ClavesLeidas[j] # ClaveDelGrupoAntes(j))

\* C19: when the page loop has run over every page without an error, the
\* files reported are as many as the groups opened, the count reported is
\* that number, and the files are different files of the output folder, the
\* g-th of them beginning with the page that opened the g-th group: every
\* group, the one open at the end included, was written once.
C19_CadaGrupoEmitidoUnaVez ==
    (prog = "separar" /\ pc = "fin" /\ PaginaI = total_pages) =>
        /\ processed_invoices = Len(PaginasQueAbren)
        /\ Len(results_saved) = Len(PaginasQueAbren)
        /\ \A g \in DOMAIN results_saved :
               /\ results_saved[g] \in DOMAIN fs
               /\ fs[results_saved[g]].origen = "separar"
               /\ fs[results_saved[g]].paginas[1] = PaginasQueAbren[g] - 1
               /\ \A h \in DOMAIN results_saved : results_saved[h] = results_saved[g] => h = g

\* C19: a finished run over five pages, the first without key, in which
\* three groups were opened, the last one by the last page
C19_Witness ==
    /\ prog = "separar" /\ pc = "fin"
    /\ total_pages = 5 /\ PaginaI = 5
    /\ ClavesLeidas[1] = None
    /\ Len(PaginasQueAbren) = 3
    /\ PaginasQueAbren[3] = 5
    /\ processed_invoices = 3

\* C21: a failure to render, crop or read a page never ends the page loop:
\* the run is never left by an exception raised while a page is turned into
\* its text.
C21_ExtraccionNoAborta ==
    prog = "separar" => ~(pc = "error" /\ sep_error = "render")

\* the name f is the name of a PDF and holds, as a whole word, the number
\* num as the invoice text gives it after padding (0487) or without its
\* leading zeros (487, also the number of the name "A25 487")
NombraElNumero(num, f) ==
    IsPdfName(f) /\ (SearchWholeWord(num, f) \/ SearchWholeWord(SinCeros(num), f))

\* C22: no reference is listed as missing while a PDF of the pool is named
\* with its number, padded to 4 digits or not, with or without a series in
\* front.
C22_VariantesDelNumero ==
    prog = "unir" =>
        \A j \in DOMAIN albaranes_faltantes : \A i \in DOMAIN pool :
            ~NombraElNumero(albaranes_faltantes[j][2], pool[i].name)

\* C23: at most one thread of the window is running; while one is running
\* the start button is disabled, so no other can be started, and whenever
\* none is running, however the last one ended, the button is enabled.
C23_UnSoloHilo ==
    prog = "gui" =>
        /\ Cardinality(HilosActivos) <= 1
        /\ HilosActivos # {} => btn_start = "disabled"
        /\ HilosActivos = {} => btn_start = "normal"

\* C23: a first run ended with an exception, the button came back, and a
\* second run is at its second page with the button disabled
C23_Witness ==
    /\ prog = "gui"
    /\ Len(hilos) = 2
    /\ hilos[1].pc = "terminado" /\ hilos[1].i < hilos[1].total
    /\ hilos[2].pc = "procesar" /\ hilos[2].i = 2
    /\ btn_start = "disabled"
====
